---------------------------- MODULE Spec2Model ----------------------------
(***************************************************************************)
(* The indexer of src/indexer/IndexerMain.cpp: a set of worker threads,    *)
(* one per compilation unit, hand symbol, reference and relation slabs to  *)
(* the three callbacks of one IndexActionFactory; each callback folds its  *)
(* slab into the factory's builders under the mutex SymbolsMu.  When the   *)
(* executor is finished with the factory, its destructor builds the three  *)
(* stores into the IndexFileIn of main, which main hands to writeLSIF.     *)
(*                                                                         *)
(* mergeSymbol, the three slab builders and writeLSIF are declared in      *)
(* index/*.h and defined outside IndexerMain.cpp; they are modelled from   *)
(* the specification's sections 4.1, 4.2, 4.3, 4.5 and 4.6.                *)
(***************************************************************************)
EXTENDS Integers, Sequences, FiniteSets, Bags, TLC

(***************************************************************************)
(* Bounds.                                                                 *)
(***************************************************************************)
\* The number of compilation units, each run by a worker thread of its own.
NumUnits == 2

Workers == 1..NumUnits

(***************************************************************************)
(* The observations the analysis engine hands to the callbacks.            *)
(***************************************************************************)
\* A source location: a document and a place in it.
Loc(f, l) == [file |-> f, line |-> l]

\* A location tagged as a declaration, and one tagged as a definition.
Declaration(l) == [tag |-> "declaration", loc |-> l]

Definition(l) == [tag |-> "definition", loc |-> l]

\* The symbol identities the engine may report.
SymbolIDs == {1, 2}

\* What find returns when the store holds no record of an identity.
NoSymbol ==
  [ID |-> 0, Name |-> "", Kind |-> "", Locations |-> {}, References |-> 0,
   Documentation |-> "", Flags |-> {}]

\* foo as one unit sees it: declared in a header, referenced twice.
FooDecl ==
  [ID |-> 1, Name |-> "foo", Kind |-> "function",
   Locations |-> {Declaration(Loc("foo.h", 1))}, References |-> 2,
   Documentation |-> "", Flags |-> {}]

\* foo as another unit sees it: defined, documented, referenced once.
FooDef ==
  [ID |-> 1, Name |-> "foo", Kind |-> "function",
   Locations |-> {Definition(Loc("foo.cpp", 10))}, References |-> 1,
   Documentation |-> "Does foo.", Flags |-> {}]

\* The same identity observed with another name, kind and documentation.
FooAlt ==
  [ID |-> 1, Name |-> "bar", Kind |-> "variable",
   Locations |-> {Declaration(Loc("bar.h", 7))}, References |-> 1,
   Documentation |-> "Other.", Flags |-> {"deprecated"}]

\* The same identity observed with the same name and another kind.
FooVar ==
  [ID |-> 1, Name |-> "foo", Kind |-> "variable",
   Locations |-> {Declaration(Loc("foo.h", 1))}, References |-> 1,
   Documentation |-> "", Flags |-> {}]

\* A second identity.
Base ==
  [ID |-> 2, Name |-> "Base", Kind |-> "class",
   Locations |-> {Declaration(Loc("foo.h", 5))}, References |-> 1,
   Documentation |-> "", Flags |-> {"implicit"}]

\* A SymbolSlab holds at most one symbol per identity, ordered by identity.
SymbolSlabs ==
  { <<>>, <<FooDecl>>, <<FooDef, Base>>, <<FooAlt>>, <<FooVar, Base>> }

\* Two calls of foo, a read of it at the place of the first call, and a call
\* of Base at that same place.
RefA == [ID |-> 1, Location |-> Loc("a.cpp", 3), Kind |-> "call"]

RefB == [ID |-> 1, Location |-> Loc("a.cpp", 9), Kind |-> "call"]

RefC == [ID |-> 1, Location |-> Loc("a.cpp", 3), Kind |-> "read"]

RefD == [ID |-> 2, Location |-> Loc("a.cpp", 3), Kind |-> "call"]

\* A RefSlab, flattened in its iteration order: on line 77 Sym.first is the
\* ID of an entry and Sym.second its references.
RefSlabs == { <<>>, <<RefA, RefB>>, <<RefC, RefD>>, <<RefA>> }

\* Two relations between the two identities.
RelA == [Subject |-> 2, Predicate |-> "BaseOf", Object |-> 1]

RelB == [Subject |-> 1, Predicate |-> "OverriddenBy", Object |-> 2]

RelationSlabs == { <<>>, <<RelA>>, <<RelA, RelB>> }

(***************************************************************************)
(* The builders and mergeSymbol.                                           *)
(***************************************************************************)
\* The declaration locations and the definition locations of a record.
Declarations(S) == {l \in S.Locations : l.tag = "declaration"}

Definitions(S) == {l \in S.Locations : l.tag = "definition"}

\* mergeSymbol(L, R), L being the record seen first: L's name and kind, the
\* declarations of both, the definition of whichever has one (R's, the later
\* seen, when both have), the counters summed, the documentation that is not
\* empty (L's when both are), the flags of both.
mergeSymbol(L, R) ==
  [ID |-> L.ID,
   Name |-> L.Name,
   Kind |-> L.Kind,
   Locations |->
     Declarations(L) \cup Declarations(R) \cup
       (IF Definitions(L) # {} /\ Definitions(R) # {}
          THEN Definitions(R)
          ELSE Definitions(L) \cup Definitions(R)),
   References |-> L.References + R.References,
   Documentation |->
     IF L.Documentation # "" THEN L.Documentation ELSE R.Documentation,
   Flags |-> L.Flags \cup R.Flags]

\* SymbolSlab::Builder::find
SymbolsFind(store, id) ==
  IF \E r \in store : r.ID = id
    THEN CHOOSE r \in store : r.ID = id
    ELSE NoSymbol

\* SymbolSlab::Builder::insert: the record of Sym.ID becomes Sym.
SymbolsInsert(store, Sym) == {r \in store : r.ID # Sym.ID} \cup {Sym}

\* Fault: an insert that appends without looking for the reference.
RefsInsertAlways(store, Ref) == store (+) SetToBag({Ref})

\* RefSlab::Builder::insert: "Deduplication happens during insertion."
RefsInsert(store, Ref) ==
  IF BagIn(Ref, store) THEN store ELSE store (+) SetToBag({Ref})

\* Fault: an insert that appends without looking for the relation.
RelationsInsertAlways(store, R) == store (+) SetToBag({R})

\* RelationSlab::Builder::insert
RelationsInsert(store, R) ==
  IF BagIn(R, store) THEN store ELSE store (+) SetToBag({R})

(***************************************************************************)
(* writeLSIF: the graph serializer.                                        *)
(***************************************************************************)
\* The values the project-root option may have: unset, or a root URI.
ProjectRoots == { <<>>, <<"file://", "/project">> }

\* llvm::sys::fs::current_path
CurrentPath == <<"/work">>

\* The stream with one more vertex.
Vertex(out, label, data) ==
  Append(out, [id |-> Len(out) + 1, type |-> "vertex", label |-> label,
               outV |-> 0, inV |-> 0, data |-> data])

\* The stream with one more edge from outV to inV.
Edge(out, label, outV, inV, data) ==
  Append(out, [id |-> Len(out) + 1, type |-> "edge", label |-> label,
               outV |-> outV, inV |-> inV, data |-> data])

\* The identifier of the vertex of this label and data, 0 when none was written.
VertexId(out, label, data) ==
  LET hits == {i \in DOMAIN out :
                 /\ out[i].type = "vertex"
                 /\ out[i].label = label
                 /\ out[i].data = data}
  IN IF hits = {} THEN 0 ELSE out[CHOOSE i \in hits : TRUE].id

RECURSIVE SetToSeq(_)
\* The elements of a finite set in a fixed order.
SetToSeq(T) ==
  IF T = {} THEN <<>>
  ELSE LET x == CHOOSE x \in T : TRUE IN <<x>> \o SetToSeq(T \ {x})

\* Whether the snapshot holds a symbol of this identity.
Known(snapshot, id) == \E sym \in snapshot.Symbols : sym.ID = id

\* The source documents a symbol or a reference of the snapshot names.
Documents(snapshot) ==
  {l.loc.file : l \in UNION {sym.Locations : sym \in snapshot.Symbols}}
    \cup {r.Location.file : r \in BagToSet(snapshot.Refs)}

\* The metadata record: protocol, project root, tool.
EmitMeta(O) ==
  [records |->
     Vertex(<<>>, "metaData",
            [projectRoot |-> O.ProjectRoot, debug |-> O.Debug,
             toolInfo |-> "lsif-clang"]),
   skipped |-> 0]

RECURSIVE EmitDocuments(_, _)
\* One document vertex per source document.
EmitDocuments(st, files) ==
  IF files = <<>> THEN st
  ELSE EmitDocuments(
         [st EXCEPT !.records = Vertex(@, "document", Head(files))],
         Tail(files))

\* A range vertex for an occurrence of symbol id, attached to its document
\* and to the symbol's result set, and the edge from the result set to it.
EmitRange(out, occ, edgeLabel) ==
  LET withRange == Vertex(out, "range", occ)
      range == Len(withRange)
      resultSet == VertexId(out, "resultSet", occ.ID)
      contained ==
        Edge(withRange, "contains",
             VertexId(out, "document", occ.Location.file), range, occ)
      linked == Edge(contained, "next", range, resultSet, occ)
  IN IF edgeLabel = "" THEN linked
     ELSE Edge(linked, edgeLabel, resultSet, range, occ)

RECURSIVE EmitLocations(_, _, _)
\* The ranges of a symbol's declarations and definitions.
EmitLocations(out, id, locs) ==
  IF locs = <<>> THEN out
  ELSE EmitLocations(
         EmitRange(out,
                   [ID |-> id, Location |-> Head(locs).loc,
                    Kind |-> Head(locs).tag],
                   IF Head(locs).tag = "definition"
                     THEN "textDocument/definition" ELSE ""),
         id, Tail(locs))

RECURSIVE EmitSymbols(_, _)
\* One result-set vertex per symbol, with its moniker and hover payload, then
\* the symbol's ranges.
EmitSymbols(st, syms) ==
  IF syms = <<>> THEN st
  ELSE LET sym == Head(syms)
           withSet ==
             Vertex(st.records, "resultSet", sym.ID)
           withMoniker ==
             Edge(Vertex(withSet, "moniker", sym.ID), "moniker",
                  Len(withSet), Len(withSet) + 1, sym.ID)
           withHover ==
             IF sym.Documentation = "" THEN withMoniker
             ELSE Edge(Vertex(withMoniker, "hoverResult", sym.Documentation),
                       "textDocument/hover", Len(withSet),
                       Len(withMoniker) + 1, sym.ID)
       IN EmitSymbols(
            [st EXCEPT !.records =
               EmitLocations(withHover, sym.ID, SetToSeq(sym.Locations))],
            Tail(syms))

\* Fault: a serializer that writes every reference, known symbol or not.
RefKnownAlways(snapshot, ref) == TRUE

\* Whether the serializer writes this reference: its symbol is in the snapshot.
RefKnown(snapshot, ref) == Known(snapshot, ref.ID)

\* Whether the serializer writes this relation: both its symbols are there.
RelationKnown(snapshot, rel) ==
  Known(snapshot, rel.Subject) /\ Known(snapshot, rel.Object)

RECURSIVE EmitRefs(_, _, _)
\* One range per reference of a known symbol; the others are skipped, counted.
EmitRefs(st, snapshot, refs) ==
  IF refs = <<>> THEN st
  ELSE EmitRefs(
         IF RefKnown(snapshot, Head(refs))
           THEN [st EXCEPT !.records =
                   EmitRange(@, Head(refs), "textDocument/references")]
           ELSE [st EXCEPT !.skipped = @ + 1],
         snapshot, Tail(refs))

RECURSIVE EmitRelations(_, _, _)
\* One edge per relation between known symbols; the others are skipped, counted.
EmitRelations(st, snapshot, rels) ==
  IF rels = <<>> THEN st
  ELSE EmitRelations(
         IF RelationKnown(snapshot, Head(rels))
           THEN [st EXCEPT !.records =
                   Edge(@, Head(rels).Predicate,
                        VertexId(@, "resultSet", Head(rels).Subject),
                        VertexId(@, "resultSet", Head(rels).Object),
                        Head(rels))]
           ELSE [st EXCEPT !.skipped = @ + 1],
         snapshot, Tail(rels))

\* Fault: a serializer that writes the relation edges before the symbols.
writeLSIFRelationsFirst(O, snapshot) ==
  EmitRefs(
    EmitSymbols(
      EmitRelations(
        EmitDocuments(EmitMeta(O), SetToSeq(Documents(snapshot))),
        snapshot, SetToSeq(BagToSet(snapshot.Relations))),
      SetToSeq(snapshot.Symbols)),
    snapshot, SetToSeq(BagToSet(snapshot.Refs)))

\* writeLSIF(Out, OS): metadata, documents, symbols with their ranges,
\* references, relations, in one forward pass.
writeLSIF(O, snapshot) ==
  EmitRelations(
    EmitRefs(
      EmitSymbols(
        EmitDocuments(EmitMeta(O), SetToSeq(Documents(snapshot))),
        SetToSeq(snapshot.Symbols)),
      snapshot, SetToSeq(BagToSet(snapshot.Refs))),
    snapshot, SetToSeq(BagToSet(snapshot.Relations)))

(***************************************************************************)
(* The state.                                                              *)
(***************************************************************************)
VARIABLES
  mainPC,      \* where main is
  factory,     \* "none", "alive" (collecting) or "destroyed" (frozen)
  pc,          \* where each worker is
  SymbolsMu,   \* the worker holding the mutex, 0 when it is free
  S,           \* per worker: the rest of the slab its callback iterates
  Existing,    \* per worker: what Symbols.find returned for the head of S
  Symbols,     \* SymbolSlab::Builder: a set of symbol records
  Refs,        \* RefSlab::Builder: a bag of references
  Relations,   \* RelationSlab::Builder: a bag of relations
  Data,        \* main's IndexFileIn
  Err,         \* whether execute returned an error
  Out,         \* main's IndexFileOut
  outs,        \* llvm::outs(): the records written so far
  skipped,     \* the serializer's count of entries it skipped
  streamError, \* a write to llvm::outs() has failed
  exitCode,    \* main's return value, -1 while main runs
  ProjectRoot, \* the project-root option, <<>> when it is not given
  Debug,       \* the debug option
  serial,      \* history: the stores with every slab applied when locked
  refSum,      \* history: per identity, the References ingested so far
  firstSeen,   \* history: per identity, the observation ingested first
  firstDoc,    \* history: per identity, the first non-empty Documentation
  seen         \* history: the bag of the symbol observations, the set of the
               \* references and the set of the relations ingested so far

vars ==
  <<mainPC, factory, pc, SymbolsMu, S, Existing, Symbols, Refs, Relations,
    Data, Err, Out, outs, skipped, streamError, exitCode, ProjectRoot, Debug,
    serial, refSum, firstSeen, firstDoc, seen>>

emitVars == <<Err, Out, outs, skipped, streamError, exitCode>>

optionVars == <<ProjectRoot, Debug>>

mainVars == <<mainPC, factory, Data, emitVars, optionVars>>

storeVars == <<Symbols, Refs, Relations>>

storeHistory == <<refSum, firstSeen, firstDoc>>

symHistory == <<storeHistory, seen>>

EmptyData == [Symbols |-> {}, Refs |-> EmptyBag, Relations |-> EmptyBag]

\* An IndexFileOut that main has not filled yet.
NoOut == [ProjectRoot |-> <<>>, Debug |-> FALSE, Format |-> ""]

Init ==
  /\ mainPC = "start"
  /\ factory = "none"
  /\ pc = [w \in Workers |-> "symbols"]
  /\ SymbolsMu = 0
  /\ S = [w \in Workers |-> <<>>]
  /\ Existing = [w \in Workers |-> NoSymbol]
  /\ Symbols = {}
  /\ Refs = EmptyBag
  /\ Relations = EmptyBag
  /\ Data = EmptyData
  /\ Err = FALSE
  /\ Out = NoOut
  /\ outs = <<>>
  /\ skipped = 0
  /\ streamError = FALSE
  /\ ProjectRoot = <<>>
  /\ Debug = FALSE
  /\ exitCode = -1
  /\ serial = EmptyData
  /\ refSum = [id \in SymbolIDs |-> 0]
  /\ firstSeen = [id \in SymbolIDs |-> NoSymbol]
  /\ firstDoc = [id \in SymbolIDs |-> ""]
  /\ seen = [Symbols |-> EmptyBag, Refs |-> {}, Relations |-> {}]

(***************************************************************************)
(* The callbacks of IndexActionFactory::create.                            *)
(***************************************************************************)
\* Fault: a callback that enters without waiting for the mutex.
LockNoWait(w) == SymbolsMu' = w

\* std::lock_guard<std::mutex> Lock(SymbolsMu): blocks until the mutex is free.
Lock(w) ==
  /\ SymbolsMu = 0
  /\ SymbolsMu' = w

\* Fault: a callback that returns without releasing the mutex.
UnlockNever(w) == SymbolsMu' = SymbolsMu

\* The lock_guard's destructor at the end of the callback.
Unlock(w) == SymbolsMu' = 0

\* Fault: mergeSymbol called with its arguments exchanged.
MergedSwapped(existing, Sym) ==
  IF existing # NoSymbol THEN mergeSymbol(Sym, existing) ELSE Sym

\* Fault: the new observation inserted over the existing record, unmerged.
MergedNoMerge(existing, Sym) == Sym

\* Fault: the existing record inserted again, the new observation dropped.
MergedKeepExisting(existing, Sym) ==
  IF existing # NoSymbol THEN existing ELSE Sym

\* The record lines 69-72 insert for Sym when find returned existing.
Merged(existing, Sym) ==
  IF existing # NoSymbol THEN mergeSymbol(existing, Sym) ELSE Sym

RECURSIVE ApplySymbols(_, _)
\* The symbol callback's loop run on store from start to end.
ApplySymbols(store, slab) ==
  IF slab = <<>> THEN store
  ELSE ApplySymbols(
         SymbolsInsert(store,
                       Merged(SymbolsFind(store, Head(slab).ID), Head(slab))),
         Tail(slab))

RECURSIVE ApplyRefs(_, _)
\* The reference callback's loops run on store from start to end.
ApplyRefs(store, slab) ==
  IF slab = <<>> THEN store
  ELSE ApplyRefs(RefsInsert(store, Head(slab)), Tail(slab))

RECURSIVE ApplyRelations(_, _)
\* The relation callback's loop run on store from start to end.
ApplyRelations(store, slab) ==
  IF slab = <<>> THEN store
  ELSE ApplyRelations(RelationsInsert(store, Head(slab)), Tail(slab))

\* A worker's unit is analysed while the executor runs the factory's actions.
Running == mainPC = "running"

\* Line 65-67: the symbol callback is called with a slab and takes the mutex.
SymbolsBegin(w) ==
  /\ Running
  /\ pc[w] = "symbols"
  /\ Lock(w)
  /\ \E slab \in SymbolSlabs :
       /\ S' = [S EXCEPT ![w] = slab]
       /\ serial' = [serial EXCEPT !.Symbols = ApplySymbols(@, slab)]
  /\ pc' = [pc EXCEPT ![w] = "symFind"]
  /\ UNCHANGED <<mainVars, storeVars, Existing, symHistory>>

\* Line 69: Symbols.find(Sym.ID) for the next symbol of the slab.
SymbolsLookup(w) ==
  /\ pc[w] = "symFind"
  /\ S[w] # <<>>
  /\ Existing' = [Existing EXCEPT ![w] = SymbolsFind(Symbols, Head(S[w]).ID)]
  /\ pc' = [pc EXCEPT ![w] = "symInsert"]
  /\ UNCHANGED <<mainVars, storeVars, SymbolsMu, S, serial, symHistory>>

\* Lines 70 and 72: Symbols.insert of the merged or the new record.
SymbolsStore(w) ==
  /\ pc[w] = "symInsert"
  /\ LET Sym == Head(S[w])
     IN /\ Symbols' = SymbolsInsert(Symbols, Merged(Existing[w], Sym))
        /\ refSum' = [refSum EXCEPT ![Sym.ID] = @ + Sym.References]
        /\ firstSeen' =
             [firstSeen EXCEPT ![Sym.ID] = IF @ = NoSymbol THEN Sym ELSE @]
        /\ firstDoc' =
             [firstDoc EXCEPT ![Sym.ID] = IF @ = "" THEN Sym.Documentation ELSE @]
        /\ seen' = [seen EXCEPT !.Symbols = @ (+) SetToBag({Sym})]
  /\ S' = [S EXCEPT ![w] = Tail(@)]
  /\ Existing' = [Existing EXCEPT ![w] = NoSymbol]
  /\ pc' = [pc EXCEPT ![w] = "symFind"]
  /\ UNCHANGED <<mainVars, Refs, Relations, SymbolsMu, serial>>

\* Line 74: the loop is over, the callback returns and releases the mutex.
SymbolsEnd(w) ==
  /\ pc[w] = "symFind"
  /\ S[w] = <<>>
  /\ Unlock(w)
  /\ pc' = [pc EXCEPT ![w] = "refs"]
  /\ UNCHANGED <<mainVars, storeVars, S, Existing, serial, symHistory>>

\* Lines 75-76: the reference callback is called and takes the mutex.
RefsBegin(w) ==
  /\ Running
  /\ pc[w] = "refs"
  /\ Lock(w)
  /\ \E slab \in RefSlabs :
       /\ S' = [S EXCEPT ![w] = slab]
       /\ serial' = [serial EXCEPT !.Refs = ApplyRefs(@, slab)]
  /\ pc' = [pc EXCEPT ![w] = "refLoop"]
  /\ UNCHANGED <<mainVars, storeVars, Existing, symHistory>>

\* Fault: a reference callback that drops the references of an identity the
\* Symbol Store has no record of.
RefsStoreKnownOnly(w) ==
  /\ pc[w] = "refLoop"
  /\ S[w] # <<>>
  /\ Refs' = IF SymbolsFind(Symbols, Head(S[w]).ID) # NoSymbol
               THEN RefsInsert(Refs, Head(S[w]))
               ELSE Refs
  /\ seen' = [seen EXCEPT !.Refs = @ \cup {Head(S[w])}]
  /\ S' = [S EXCEPT ![w] = Tail(@)]
  /\ UNCHANGED <<mainVars, Symbols, Relations, pc, SymbolsMu, Existing, serial,
                 storeHistory>>

\* Line 80: Refs.insert(Sym.first, Ref) for the next reference of the slab.
RefsStore(w) ==
  /\ pc[w] = "refLoop"
  /\ S[w] # <<>>
  /\ Refs' = RefsInsert(Refs, Head(S[w]))
  /\ seen' = [seen EXCEPT !.Refs = @ \cup {Head(S[w])}]
  /\ S' = [S EXCEPT ![w] = Tail(@)]
  /\ UNCHANGED <<mainVars, Symbols, Relations, pc, SymbolsMu, Existing, serial,
                 storeHistory>>

\* Line 82: the reference callback returns and releases the mutex.
RefsEnd(w) ==
  /\ pc[w] = "refLoop"
  /\ S[w] = <<>>
  /\ Unlock(w)
  /\ pc' = [pc EXCEPT ![w] = "relations"]
  /\ UNCHANGED <<mainVars, storeVars, S, Existing, serial, symHistory>>

\* Lines 83-84: the relation callback is called and takes the mutex.
RelationsBegin(w) ==
  /\ Running
  /\ pc[w] = "relations"
  /\ Lock(w)
  /\ \E slab \in RelationSlabs :
       /\ S' = [S EXCEPT ![w] = slab]
       /\ serial' = [serial EXCEPT !.Relations = ApplyRelations(@, slab)]
  /\ pc' = [pc EXCEPT ![w] = "relLoop"]
  /\ UNCHANGED <<mainVars, storeVars, Existing, symHistory>>

\* Line 86: Relations.insert(R) for the next relation of the slab.
RelationsStore(w) ==
  /\ pc[w] = "relLoop"
  /\ S[w] # <<>>
  /\ Relations' = RelationsInsert(Relations, Head(S[w]))
  /\ seen' = [seen EXCEPT !.Relations = @ \cup {Head(S[w])}]
  /\ S' = [S EXCEPT ![w] = Tail(@)]
  /\ UNCHANGED <<mainVars, Symbols, Refs, pc, SymbolsMu, Existing, serial,
                 storeHistory>>

\* Line 88: the relation callback returns and releases the mutex.
RelationsEnd(w) ==
  /\ pc[w] = "relLoop"
  /\ S[w] = <<>>
  /\ Unlock(w)
  /\ pc' = [pc EXCEPT ![w] = "done"]
  /\ UNCHANGED <<mainVars, storeVars, S, Existing, serial, symHistory>>

workerVars == <<pc, SymbolsMu, S, Existing, storeVars, serial, symHistory>>

(***************************************************************************)
(* main and the factory's life.                                            *)
(***************************************************************************)
\* Lines 123-129: createExecutorFromCommandLineArgs parses the command line,
\* which gives the options their values, and succeeds, or main returns 1.
CreateExecutor ==
  /\ mainPC = "start"
  /\ \E ok \in BOOLEAN :
       /\ mainPC' = IF ok THEN "execute" ELSE "exited"
       /\ exitCode' = IF ok THEN exitCode ELSE 1
  /\ ProjectRoot' \in ProjectRoots
  /\ Debug' \in BOOLEAN
  /\ UNCHANGED <<factory, Data, Err, Out, outs, skipped, streamError,
                 workerVars>>

\* Lines 133-135: make_unique<IndexActionFactory>(Data) is handed to execute.
Execute ==
  /\ mainPC = "execute"
  /\ factory' = "alive"
  /\ mainPC' = "running"
  /\ UNCHANGED <<optionVars, Data, emitVars, workerVars>>

\* Fault: a factory destroyed without waiting for the units.
AllUnitsDoneNoJoin == TRUE

\* The executor has run every unit and every callback has returned.
AllUnitsDone == \A w \in Workers : pc[w] = "done"

\* Lines 94-98: the executor, done with every unit, destroys the factory, whose
\* destructor builds the three stores into main's Data.
DestroyFactory ==
  /\ mainPC = "running"
  /\ AllUnitsDone
  /\ Data' = [Symbols |-> Symbols, Refs |-> Refs, Relations |-> Relations]
  /\ factory' = "destroyed"
  /\ mainPC' = "joined"
  /\ UNCHANGED <<optionVars, emitVars, workerVars>>

\* Lines 133-138: execute returns, with an error or without; main prints it.
ExecuteReturn ==
  /\ mainPC = "joined"
  /\ \E e \in BOOLEAN : Err' = e
  /\ mainPC' = "emit"
  /\ UNCHANGED <<optionVars, factory, Data, Out, outs, skipped, streamError,
                 exitCode, workerVars>>

\* Fault: a main that roots the index at the current path whatever the
\* project-root option says.
EmitSetupCurrentPath ==
  /\ mainPC = "emit"
  /\ Out' = [ProjectRoot |-> <<"file://">> \o CurrentPath,
             Debug |-> Debug,
             Format |-> "LSIF"]
  /\ mainPC' = "write"
  /\ UNCHANGED <<optionVars, factory, Data, Err, outs, skipped, streamError,
                 exitCode, workerVars>>

\* Lines 141-150: main fills the IndexFileOut from the options.
EmitSetup ==
  /\ mainPC = "emit"
  /\ Out' = [ProjectRoot |->
               IF ProjectRoot = <<>>
                 THEN <<"file://">> \o CurrentPath
                 ELSE ProjectRoot,
             Debug |-> Debug,
             Format |-> "LSIF"]
  /\ mainPC' = "write"
  /\ UNCHANGED <<optionVars, factory, Data, Err, outs, skipped, streamError,
                 exitCode, workerVars>>

\* Where a write of a stream of n records is taken to fail: at the first
\* record or at the last one.
FailurePoints(n) == {0, n - 1}

\* Line 151: writeLSIF(Out, llvm::outs()).  Either every record reaches the
\* stream, or a write fails after Written records and the serialization is
\* aborted there; main examines neither a result nor the stream.
WriteLSIF ==
  /\ mainPC = "write"
  /\ LET written == writeLSIF(Out, Data)
     IN \/ /\ outs' = written.records
           /\ skipped' = written.skipped
           /\ streamError' = FALSE
        \/ \E Written \in FailurePoints(Len(written.records)) :
             /\ outs' = SubSeq(written.records, 1, Written)
             /\ skipped' = skipped
             /\ streamError' = TRUE
  /\ mainPC' = "return"
  /\ UNCHANGED <<optionVars, factory, Data, Err, Out, exitCode, workerVars>>

\* Line 152: return 0.
Return ==
  /\ mainPC = "return"
  /\ exitCode' = 0
  /\ mainPC' = "exited"
  /\ UNCHANGED <<optionVars, factory, Data, Err, Out, outs, skipped, streamError,
                 workerVars>>

Next ==
  \/ CreateExecutor
  \/ Execute
  \/ DestroyFactory
  \/ ExecuteReturn
  \/ EmitSetup
  \/ WriteLSIF
  \/ Return
  \/ \E w \in Workers :
       \/ SymbolsBegin(w)
       \/ SymbolsLookup(w)
       \/ SymbolsStore(w)
       \/ SymbolsEnd(w)
       \/ RefsBegin(w)
       \/ RefsStore(w)
       \/ RefsEnd(w)
       \/ RelationsBegin(w)
       \/ RelationsStore(w)
       \/ RelationsEnd(w)

Spec == Init /\ [][Next]_vars

\* The steps of the worker thread of unit w.
Callbacks(w) ==
  \/ SymbolsBegin(w)
  \/ SymbolsLookup(w)
  \/ SymbolsStore(w)
  \/ SymbolsEnd(w)
  \/ RefsBegin(w)
  \/ RefsStore(w)
  \/ RefsEnd(w)
  \/ RelationsBegin(w)
  \/ RelationsStore(w)
  \/ RelationsEnd(w)

\* The program under a scheduler that lets every worker thread that can take
\* a step take one in the end, and an executor that, once its units are done,
\* lets go of the factory.
FairSpec ==
  /\ Spec
  /\ WF_vars(DestroyFactory)
  /\ \A w \in Workers : WF_vars(Callbacks(w))

(***************************************************************************)
(* Properties.                                                             *)
(***************************************************************************)
\* A worker is inside a callback's critical section.
InCS(w) == pc[w] \in {"symFind", "symInsert", "refLoop", "relLoop"}

\* C1: at most one callback, of whatever kind, is inside the critical section
\* at a time, and every slab is applied whole before another starts: at the
\* head of a callback's loop, finishing its slab on the stores as they are
\* gives the stores of the slabs applied one at a time in the order of locking,
\* and so do the stores themselves whenever the mutex is free.
BatchesAtomic ==
  /\ Cardinality({w \in Workers : InCS(w)}) <= 1
  /\ \A w \in Workers :
       /\ pc[w] = "symFind" =>
            /\ ApplySymbols(Symbols, S[w]) = serial.Symbols
            /\ Refs = serial.Refs /\ Relations = serial.Relations
       /\ pc[w] = "refLoop" =>
            /\ ApplyRefs(Refs, S[w]) = serial.Refs
            /\ Symbols = serial.Symbols /\ Relations = serial.Relations
       /\ pc[w] = "relLoop" =>
            /\ ApplyRelations(Relations, S[w]) = serial.Relations
            /\ Symbols = serial.Symbols /\ Refs = serial.Refs
  /\ (\A w \in Workers : ~InCS(w)) =>
       /\ Symbols = serial.Symbols
       /\ Refs = serial.Refs
       /\ Relations = serial.Relations

\* C1's case: a worker is in the middle of a reference slab while another
\* worker, its symbols already ingested, waits to enter a callback.
BatchesAtomicWitness ==
  \E w, v \in Workers :
    /\ w # v
    /\ pc[w] = "refLoop" /\ Len(S[w]) = 1
    /\ pc[v] = "refs"
    /\ Cardinality(Symbols) = 2

\* C2: the stored reference counter of an identity is the sum of the counters
\* of all the observations of it ingested so far; no update is lost.
CounterIsSum ==
  \A id \in SymbolIDs : SymbolsFind(Symbols, id).References = refSum[id]

\* C2's case: every worker has ingested the observation FooDef, whose counter
\* is 1, and the stored counter is the number of workers.
CounterIsSumWitness ==
  /\ \A w \in Workers : pc[w] = "done"
  /\ SymbolsFind(Symbols, 1) = [FooDef EXCEPT !.References = NumUnits]

\* A store holds at most one record per identity.
OnePerIdentity(store) == \A a, b \in store : a.ID = b.ID => a = b

\* C3: the symbol store, and the frozen snapshot, hold at most one record per
\* identity, and an ingest stores the observation as it is when its identity
\* is absent and replaces the record by mergeSymbol(record, observation) when
\* it is present.
OneRecordPerIdentity ==
  [][/\ OnePerIdentity(Symbols')
     /\ OnePerIdentity(Data'.Symbols)
     /\ \A w \in Workers :
          (pc[w] = "symInsert" /\ pc'[w] = "symFind") =>
            LET Sym == Head(S[w])
                old == SymbolsFind(Symbols, Sym.ID)
            IN Symbols' =
                 {r \in Symbols : r.ID # Sym.ID} \cup
                   {IF old = NoSymbol THEN Sym ELSE mergeSymbol(old, Sym)}]_vars

\* C3's case: the snapshot holds two identities, one of them merged from a
\* declaration and a definition.
OneRecordPerIdentityWitness ==
  /\ factory = "destroyed"
  /\ Cardinality(Data.Symbols) = 2
  /\ Cardinality(SymbolsFind(Data.Symbols, 1).Locations) = 2

\* C4: the stored name and kind of an identity are those of the observation
\* of it that was ingested first.
FirstSeenNameKind ==
  \A id \in SymbolIDs :
    /\ SymbolsFind(Symbols, id).Name = firstSeen[id].Name
    /\ SymbolsFind(Symbols, id).Kind = firstSeen[id].Kind

\* C4's case: foo, a function, was ingested first and FooAlt, the same identity
\* as the variable bar, was merged into it.
FirstSeenNameKindWitness ==
  \E r \in Symbols :
    /\ r.ID = 1 /\ r.Name = "foo" /\ r.Kind = "function"
    /\ "deprecated" \in r.Flags

\* C5: the stored documentation of an identity is that of the first ingested
\* observation of it whose documentation is not empty, and is empty when
\* there is none.
FirstNonEmptyDocumentation ==
  \A id \in SymbolIDs :
    SymbolsFind(Symbols, id).Documentation = firstDoc[id]

\* C5's case: an undocumented declaration was ingested first and the documented
\* definition after it.
FirstNonEmptyDocumentationWitness ==
  \E r \in Symbols :
    /\ r.ID = 1
    /\ firstSeen[1] = FooDecl
    /\ r.Documentation = "Does foo."

\* A bag holds no entry twice.
NoDuplicates(bag) == \A e \in BagToSet(bag) : CopiesIn(e, bag) = 1

\* C6: the reference store, and the frozen snapshot, hold no reference of an
\* identity twice; ingesting a reference already stored for its identity leaves
\* the store as it is, and ingesting another adds exactly it.
ReferencesDeduplicated ==
  [][/\ NoDuplicates(Refs')
     /\ NoDuplicates(Data'.Refs)
     /\ \A w \in Workers :
          (pc[w] = "refLoop" /\ S[w] # <<>> /\ S'[w] = Tail(S[w])) =>
            IF BagIn(Head(S[w]), Refs)
              THEN Refs' = Refs
              ELSE Refs' = Refs (+) SetToBag({Head(S[w])})]_vars

\* C6's case: a worker has just ingested RefA from the slab <<RefA, RefB>> and
\* has RefB still to ingest, while the store already holds both: another
\* worker ingested the same slab before, so RefA arrived twice.
ReferencesDeduplicatedWitness ==
  \E w \in Workers :
    /\ pc[w] = "refLoop"
    /\ S[w] = <<RefB>>
    /\ Refs = SetToBag({RefA, RefB})

\* C7: the relation store, and the frozen snapshot, hold no triple twice;
\* ingesting a relation already present leaves the store as it is.
RelationsDeduplicated ==
  [][/\ NoDuplicates(Relations')
     /\ NoDuplicates(Data'.Relations)
     /\ \A w \in Workers :
          (pc[w] = "relLoop" /\ S[w] # <<>> /\ S'[w] = Tail(S[w])) =>
            IF BagIn(Head(S[w]), Relations)
              THEN Relations' = Relations
              ELSE Relations' = Relations (+) SetToBag({Head(S[w])})]_vars

\* C7's case: a worker has just ingested RelA from the slab <<RelA, RelB>> and
\* has RelB still to ingest, while the store already holds both: another
\* worker ingested the same slab before, so RelA arrived twice.
RelationsDeduplicatedWitness ==
  \E w \in Workers :
    /\ pc[w] = "relLoop"
    /\ S[w] = <<RelB>>
    /\ Relations = SetToBag({RelA, RelB})

\* The identifiers of the vertices among the first n records of the stream.
VerticesBefore(n) ==
  {outs[j].id : j \in {k \in 1..(n - 1) : outs[k].type = "vertex"}}

\* C8: both endpoints of every edge of the output stream are vertices written
\* earlier in the stream.
EdgesAfterVertices ==
  \A i \in DOMAIN outs :
    outs[i].type = "edge" =>
      /\ outs[i].outV \in VerticesBefore(i)
      /\ outs[i].inV \in VerticesBefore(i)

\* C8's case: a stream with definition, reference and relation edges.
EdgesAfterVerticesWitness ==
  /\ \E i \in DOMAIN outs : outs[i].label = "textDocument/definition"
  /\ \E i \in DOMAIN outs : outs[i].label = "textDocument/references"
  /\ \E i \in DOMAIN outs : outs[i].label = "OverriddenBy"

\* The references of the snapshot whose identity has no symbol.
DanglingRefs == {r \in BagToSet(Data.Refs) : ~Known(Data, r.ID)}

\* The relations of the snapshot one of whose identities has no symbol.
DanglingRelations ==
  {r \in BagToSet(Data.Relations) :
     ~(Known(Data, r.Subject) /\ Known(Data, r.Object))}

\* The records of the stream written for an occurrence or a relation.
WrittenFor(item, labels) ==
  {i \in DOMAIN outs : outs[i].label \in labels /\ outs[i].data = item}

\* C9: once the stream is written, whole, it holds no record for a reference
\* or a relation that names an identity without a symbol, no edge of it ends
\* at an identifier that is no vertex of it, and the skipped entries are
\* counted.
DanglingSkipped ==
  mainPC \in {"return", "exited"} /\ exitCode # 1 /\ ~streamError =>
    /\ \A r \in DanglingRefs :
         WrittenFor(r, {"range", "contains", "next",
                        "textDocument/references"}) = {}
    /\ \A r \in DanglingRelations : WrittenFor(r, {r.Predicate}) = {}
    /\ \A i \in DOMAIN outs :
         outs[i].type = "edge" =>
           {outs[i].outV, outs[i].inV} \subseteq VerticesBefore(Len(outs) + 1)
    /\ skipped = Cardinality(DanglingRefs) + Cardinality(DanglingRelations)

\* C9's case: a written stream for a snapshot with a reference and a relation
\* that name a missing identity, and with a reference that was written.
DanglingSkippedWitness ==
  /\ mainPC = "return"
  /\ ~streamError
  /\ DanglingRefs # {}
  /\ DanglingRelations # {}
  /\ \E i \in DOMAIN outs : outs[i].label = "textDocument/references"

\* C10: the factory goes from collecting to frozen only by its destructor,
\* which builds the stores into Data once every worker's callbacks have
\* returned; frozen is final, no callback touches the stores after it, and
\* main serializes nothing before it.
FreezeOnceAfterJoin ==
  [][/\ (factory # "destroyed" /\ factory' = "destroyed") =>
          /\ factory = "alive"
          /\ \A w \in Workers : pc[w] = "done"
          /\ SymbolsMu = 0
          /\ Data' = [Symbols |-> Symbols, Refs |-> Refs,
                      Relations |-> Relations]
     /\ factory = "destroyed" =>
          /\ factory' = "destroyed"
          /\ UNCHANGED <<Symbols, Refs, Relations, pc, S, SymbolsMu, Data>>
     /\ (Data' # Data) => factory' = "destroyed" /\ factory = "alive"
     /\ (outs' # outs \/ Out' # Out) => factory = "destroyed"
     /\ mainPC' \in {"joined", "emit", "write", "return"} =>
          factory' = "destroyed"]_vars

\* C10's case: a frozen snapshot with symbols in it has been serialized.
FreezeOnceAfterJoinWitness ==
  /\ factory = "destroyed"
  /\ Data.Symbols # {}
  /\ Data.Refs # EmptyBag
  /\ outs # <<>>

\* The whole stream has been written: every record of the serialization.
WrittenWhole ==
  /\ mainPC \in {"return", "exited"}
  /\ exitCode # 1
  /\ ~streamError

\* C11: main returns 0 when the snapshot was serialized whole after an analysis
\* without error, and a value other than 0 when execute returned an error.
ExitStatusFollowsExecute ==
  mainPC = "exited" =>
    /\ (WrittenWhole /\ ~Err) => exitCode = 0
    /\ Err => exitCode # 0

SeenOf(id) == {X \in BagToSet(seen.Symbols) : X.ID = id}

\* The bag of the observations of an identity ingested so far.
SeenBag(id) == [X \in SeenOf(id) |-> CopiesIn(X, seen.Symbols)]

\* C13: an identity of which one observation X alone was ingested, N times,
\* has the record X in every field but the counter, which is N times X's:
\* N when X's counter is 1.
IngestIdempotent ==
  \A id \in SymbolIDs :
    \A X \in SeenOf(id) :
      SeenOf(id) = {X} =>
        LET N == CopiesIn(X, seen.Symbols)
            record == SymbolsFind(Symbols, id)
        IN /\ [record EXCEPT !.References = X.References] = X
           /\ record.References = N * X.References
           /\ X.References = 1 => record.References = N

\* C13's case: every unit has ingested the same observation, of counter 1.
IngestIdempotentWitness ==
  /\ SeenBag(1) = [X \in {FooDef} |-> NumUnits]
  /\ FooDef.References = 1
  /\ SymbolsFind(Symbols, 1).References = NumUnits
  /\ SymbolsFind(Symbols, 1).Documentation = FooDef.Documentation

\* Two observations whose merge needs the first-seen tie-break: they differ in
\* name, in kind, in non-empty documentation or in definition.
Conflict(A, B) ==
  \/ A.Name # B.Name
  \/ A.Kind # B.Kind
  \/ /\ A.Documentation # ""
     /\ B.Documentation # ""
     /\ A.Documentation # B.Documentation
  \/ /\ Definitions(A) # {}
     /\ Definitions(B) # {}
     /\ Definitions(A) # Definitions(B)

\* Two observations of one identity with disjoint non-conflicting fields.
Disjoint(A, B) ==
  /\ A.ID = B.ID
  /\ A.Locations \cap B.Locations = {}
  /\ A.Documentation = "" \/ B.Documentation = ""
  /\ ~Conflict(A, B)

\* The observations the engine may report.
Observations == {FooDecl, FooDef, FooAlt, FooVar, Base}

\* C14: mergeSymbol gives the same record in both orders for two observations
\* of one identity with disjoint non-conflicting fields, and an identity of
\* which just these two were ingested, once each and in whichever order, has
\* that record.
MergeCommutes ==
  \A A, B \in Observations :
    Disjoint(A, B) =>
      /\ mergeSymbol(A, B) = mergeSymbol(B, A)
      /\ SeenBag(A.ID) = SetToBag({A, B}) /\ A # B =>
           SymbolsFind(Symbols, A.ID) = mergeSymbol(A, B)

\* C14's case: the definition was ingested first and the declaration second,
\* the order opposite to the one the two are named in.
MergeCommutesWitness ==
  /\ Disjoint(FooDecl, FooDef)
  /\ SeenBag(1) = SetToBag({FooDecl, FooDef})
  /\ firstSeen[1] = FooDef
  /\ SymbolsFind(Symbols, 1) = mergeSymbol(FooDecl, FooDef)

RECURSIVE TotalReferences(_, _)
\* The counters of the observations obs, each taken as often as it is in bag.
TotalReferences(obs, bag) ==
  IF obs = {} THEN 0
  ELSE LET X == CHOOSE X \in obs : TRUE
       IN CopiesIn(X, bag) * X.References + TotalReferences(obs \ {X}, bag)

\* The record of an identity as a function of the bag of its observations,
\* for observations no two of which conflict.
Canonical(id) ==
  LET obs == SeenOf(id)
      any == CHOOSE X \in obs : TRUE
  IN [ID |-> id,
      Name |-> any.Name,
      Kind |-> any.Kind,
      Locations |-> UNION {X.Locations : X \in obs},
      References |-> TotalReferences(obs, seen.Symbols),
      Documentation |->
        IF \E X \in obs : X.Documentation # ""
          THEN (CHOOSE X \in obs : X.Documentation # "").Documentation
          ELSE "",
      Flags |-> UNION {X.Flags : X \in obs}]

\* Some two observations ingested for the identity conflict.
TieBreak(id) == \E A, B \in SeenOf(id) : Conflict(A, B)

\* C15: whatever the order the batches arrived in, the Reference Store and the
\* Relation Store hold the distinct entries ingested, and the Symbol Store
\* holds, for an identity none of whose observations conflict, the record
\* that is a function of the bag of its observations; the frozen snapshot is
\* these stores.
OrderIndependent ==
  /\ Refs = SetToBag(seen.Refs)
  /\ Relations = SetToBag(seen.Relations)
  /\ \A id \in SymbolIDs :
       /\ SeenOf(id) = {} => SymbolsFind(Symbols, id) = NoSymbol
       /\ SeenOf(id) # {} /\ ~TieBreak(id) =>
            SymbolsFind(Symbols, id) = Canonical(id)
  /\ factory = "destroyed" =>
       /\ Data.Refs = SetToBag(seen.Refs)
       /\ Data.Relations = SetToBag(seen.Relations)
       /\ \A id \in SymbolIDs :
            SeenOf(id) # {} /\ ~TieBreak(id) =>
              SymbolsFind(Data.Symbols, id) = Canonical(id)

\* C15's case: a frozen snapshot of units whose batches differ, the identity
\* seen twice without conflict, the later-named observation ingested first.
OrderIndependentWitness ==
  /\ factory = "destroyed"
  /\ SeenOf(1) = {FooDecl, FooDef}
  /\ ~TieBreak(1)
  /\ firstSeen[1] = FooDef
  /\ seen.Refs = {RefA, RefB, RefC, RefD}
  /\ seen.Relations = {RelA, RelB}

\* C16: a step of the reference loop or of the relation loop leaves the Symbol
\* Store as it is and the entry it was given in its store, whether or not the
\* identities it names have a record; and the frozen snapshot holds every
\* reference and relation that was ingested.
IntakeAcceptsDangling ==
  [][/\ \A w \in Workers :
          pc[w] = "refLoop" /\ S[w] # <<>> /\ S'[w] # S[w] =>
            /\ Symbols' = Symbols
            /\ BagIn(Head(S[w]), Refs')
            /\ pc'[w] = "refLoop"
     /\ \A w \in Workers :
          pc[w] = "relLoop" /\ S[w] # <<>> /\ S'[w] # S[w] =>
            /\ Symbols' = Symbols
            /\ BagIn(Head(S[w]), Relations')
            /\ pc'[w] = "relLoop"
     /\ factory' = "destroyed" =>
          /\ \A r \in seen'.Refs : BagIn(r, Data'.Refs)
          /\ \A r \in seen'.Relations : BagIn(r, Data'.Relations)]_vars

\* C16's case: the frozen snapshot holds a reference and a relation naming
\* an identity of which no symbol was ever ingested.
IntakeAcceptsDanglingWitness ==
  /\ factory = "destroyed"
  /\ SeenOf(2) = {}
  /\ ~Known(Data, 2)
  /\ RefD \in seen.Refs
  /\ BagIn(RefD, Data.Refs)
  /\ RelA \in seen.Relations
  /\ BagIn(RelA, Data.Relations)

\* The end-to-end scenario: of identity 1 the units have ingested the
\* declaration with counter 2 and no documentation and the definition with
\* counter 1 and documentation, once each.
Scenario ==
  /\ SeenBag(1) = SetToBag({FooDecl, FooDef})
  /\ FooDecl.References = 2 /\ FooDecl.Documentation = ""
  /\ FooDef.References = 1 /\ FooDef.Documentation # ""

\* The record the scenario expects: both locations, counter 3, documentation.
ScenarioRecord(record) ==
  /\ record.Locations =
       {Declaration(Loc("foo.h", 1)), Definition(Loc("foo.cpp", 10))}
  /\ record.References = 3
  /\ record.Documentation = "Does foo."

\* The symbol vertices of the stream for an identity.
SymbolVertices(id) ==
  {i \in DOMAIN outs :
     outs[i].type = "vertex" /\ outs[i].label = "resultSet" /\ outs[i].data = id}

\* The edges of this label from a symbol vertex of the identity to a range.
RangeEdges(id, label) ==
  {i \in DOMAIN outs :
     /\ outs[i].type = "edge"
     /\ outs[i].label = label
     /\ outs[i].outV \in {outs[j].id : j \in SymbolVertices(id)}}

\* The distinct references of an identity in the frozen snapshot.
ReferencesOf(id) == {r \in BagToSet(Data.Refs) : r.ID = id}

\* C17 as stated: in the scenario the record is the expected one, and the
\* written graph has one symbol vertex for the identity, with exactly three
\* reference-range edges and one definition-range edge.
ScenarioThreeReferenceEdges ==
  Scenario =>
    /\ ScenarioRecord(SymbolsFind(Symbols, 1))
    /\ WrittenWhole =>
         /\ Cardinality(SymbolVertices(1)) = 1
         /\ Cardinality(RangeEdges(1, "textDocument/references")) = 3
         /\ Cardinality(RangeEdges(1, "textDocument/definition")) = 1

\* C17, amended: in the scenario the record is the expected one in either
\* ingest order, and the written graph has one symbol vertex for the
\* identity, one definition-range edge, and one reference-range edge per
\* distinct reference of the identity in the Reference Store: three when the
\* units' reference batches held three.
ScenarioEdgesFollowReferenceStore ==
  Scenario =>
    /\ ScenarioRecord(SymbolsFind(Symbols, 1))
    /\ factory = "destroyed" => ScenarioRecord(SymbolsFind(Data.Symbols, 1))
    /\ WrittenWhole =>
         /\ Cardinality(SymbolVertices(1)) = 1
         /\ Cardinality(RangeEdges(1, "textDocument/definition")) = 1
         /\ Cardinality(RangeEdges(1, "textDocument/references")) =
              Cardinality(ReferencesOf(1))
         /\ Cardinality(ReferencesOf(1)) = 3 =>
              Cardinality(RangeEdges(1, "textDocument/references")) = 3

\* C17's case: the scenario with the definition ingested first, three
\* references of the identity in the snapshot, and the graph written.
ScenarioEdgesFollowReferenceStoreWitness ==
  /\ Scenario
  /\ firstSeen[1] = FooDef
  /\ WrittenWhole
  /\ ReferencesOf(1) = {RefA, RefB, RefC}
  /\ Cardinality(RangeEdges(1, "textDocument/references")) = 3

\* main has filled the IndexFileOut it hands to the serializer.
OutReady ==
  \/ mainPC \in {"write", "return"}
  \/ mainPC = "exited" /\ exitCode # 1

\* C18: the IndexFileOut handed to the serializer has the project-root option
\* as its root when the option is given, "file://" followed by the current
\* path when it is not, the debug option as its debug flag, and the LSIF
\* format.
OptionsHandedToSerializer ==
  OutReady =>
    /\ ProjectRoot # <<>> => Out.ProjectRoot = ProjectRoot
    /\ ProjectRoot = <<>> =>
         /\ Head(Out.ProjectRoot) = "file://"
         /\ Tail(Out.ProjectRoot) = CurrentPath
    /\ Out.Debug = Debug
    /\ Out.Format = "LSIF"

\* C18's case: the serializer has run with the root defaulted to the current
\* path and the debug flag on.
OptionsHandedToSerializerWitness ==
  /\ mainPC = "return"
  /\ ProjectRoot = <<>>
  /\ Debug
  /\ Out.ProjectRoot = <<"file://", "/work">>
  /\ Out.Debug

\* C19: the mutex is held inside a callback only: a worker between two of its
\* callbacks does not hold it, so the three batches of a unit are three
\* critical sections between which any other worker may take the mutex.
SeparateCriticalSections ==
  /\ \A w \in Workers : SymbolsMu = w => InCS(w)
  /\ \A w \in Workers :
       pc[w] \in {"refs", "relations"} /\ SymbolsMu = 0 /\ Running =>
         \A v \in Workers \ {w} :
           /\ pc[v] = "symbols" => ENABLED SymbolsBegin(v)
           /\ pc[v] = "refs" => ENABLED RefsBegin(v)
           /\ pc[v] = "relations" => ENABLED RelationsBegin(v)

\* C19's case: the symbol batch of unit w is applied and its reference batch
\* is not begun, while unit v, inside the critical section, has applied its
\* reference batch after its symbol batch.
SeparateCriticalSectionsWitness ==
  \E w, v \in Workers :
    /\ w # v
    /\ pc[w] = "refs"
    /\ pc[v] = "refLoop"
    /\ S[v] = <<>>
    /\ SymbolsMu = v
    /\ Cardinality(SeenOf(1)) = 2
    /\ seen.Refs # {}
    /\ Refs = SetToBag(seen.Refs)

\* C20: under fair scheduling a worker inside the critical section leaves it,
\* every worker gets through its three callbacks once the executor runs, and
\* the factory is then destroyed, which freezes the stores.
CollectionTerminates ==
  /\ \A w \in Workers : InCS(w) ~> (~InCS(w) /\ SymbolsMu # w)
  /\ \A w \in Workers : Running ~> (pc[w] = "done")
  /\ Running ~> (factory = "destroyed" /\ SymbolsMu = 0)

\* C20's case: every unit has applied its batches, the mutex is free and the
\* stores are frozen.
CollectionTerminatesWitness ==
  /\ \A w \in Workers : pc[w] = "done"
  /\ SymbolsMu = 0
  /\ factory = "destroyed"
  /\ Cardinality(SeenOf(1)) = 2
  /\ seen.Refs # {}
  /\ seen.Relations # {}
=============================================================================
